---- MODULE Spec2Model ----
(***************************************************************************)
(* Model of phy/cluster/manual/cluster_info.py: the default-populated      *)
(* cluster store (ClusterDefaultDict, BaseClusterInfo), the metadata store *)
(* with its undo stack (ClusterMetadata) and the statistics cache          *)
(* (ClusterStats).                                                         *)
(*                                                                         *)
(* Python values are encoded as follows.  A dict is a function whose       *)
(* DOMAIN is its key set.  An argument that may be a scalar or a sequence  *)
(* (clusters, values) is a record [seq, v]: seq says whether the object    *)
(* has __len__, v is the sequence itself, or the 1-tuple holding the       *)
(* scalar.  An optional result (None or a value) is a sequence of length   *)
(* 0 or 1.                                                                 *)
(***************************************************************************)
EXTENDS Integers, Sequences, FiniteSets, TLC

VARIABLES
    _data,         \* ClusterMetadata._data: cluster -> (field -> value)
    _data_base,    \* ClusterMetadata._data_base: the deep copy made at construction
    _undo_stack,   \* ClusterMetadata._undo_stack: [_history, _index]
    shared,        \* the objects _data and _data_base both refer to: [dict, records]
    op,            \* the last call made on the ClusterMetadata and what it returned
    phase,         \* scripted run (set* undo* redo*): the current phase
    cnt,           \* scripted run: calls made in the current undo or redo phase
    snap,          \* scripted run: the store right after the last set
    stats_data,    \* ClusterStats._data: cluster -> (statistic -> value)
    name,          \* ClusterStats.__init__: the variable name its accessors close over
    world,         \* the state of the data the statistics functions read
    n_calls,       \* cluster -> statistic -> calls of its function since the last invalidate
    sop            \* the last call made on the ClusterStats and what it returned

vars == <<_data, _data_base, _undo_stack, shared, op, phase, cnt, snap,
          stats_data, name, world, n_calls, sop>>

metaVars == <<_data, _data_base, _undo_stack, shared, op>>

seqVars == <<phase, cnt, snap>>

statsVars == <<stats_data, name, world, n_calls, sop>>

-----------------------------------------------------------------------------
(* Bounds of the model.                                                    *)

\* Largest number of recorded set calls kept below the cursor.
MaxHistory == 2

\* Largest number of calls of one statistics function for one cluster that
\* is counted between two invalidations.
MaxCalls == 2

-----------------------------------------------------------------------------
(* Values.                                                                 *)

\* Python's None where a field value is expected.
None == -1

\* Default group of a cluster (DEFAULT_FIELDS['group']).
DefaultGroup == 3

\* The cluster ids the callers use.
Clusters == {1, 2}

\* The colors _random_color() may return: any of them, on each call.
Colors == {5, 6}

\* The result of the per-cluster default function of the field "label".
PerCluster(cluster) == 10 + cluster

\* The result of a statistics function at a cluster, when the data it is
\* computed from is in state w.
Stat(fn, cluster, w) == (IF fn = "n_spikes" THEN 100 ELSE 200) + 10 * w + cluster

Scalar(x) == [seq |-> FALSE, v |-> <<x>>]

List(s) == [seq |-> TRUE, v |-> s]

\* hasattr(x, '__len__')
hasattr_len(x) == x.seq

\* A default specification: a constant, or a callable of nargs arguments.
Constant(x) == [callable |-> FALSE, nargs |-> 0, value |-> x, fn |-> ""]

Callable(n, fn) == [callable |-> TRUE, nargs |-> n, value |-> 0, fn |-> fn]

\* default(): the zero-argument callable is _random_color, which returns r.
Call0(default, r) == r

\* default(cluster): the per-cluster default, or a statistics function
\* evaluated on the data in state r.
Call1(default, cluster, r) ==
    IF default.fn = "per_cluster" THEN PerCluster(cluster)
    ELSE Stat(default.fn, cluster, r)

DEFAULT_FIELDS == [f \in {"group", "color"} |->
    IF f = "group" THEN Constant(DefaultGroup) ELSE Callable(0, "_random_color")]

\* The fields the stores of this model are constructed with: the default ones
\* and one field whose default is a function of the cluster id.
fields == [f \in {"group", "color", "label"} |->
    IF f = "label" THEN Callable(1, "per_cluster") ELSE DEFAULT_FIELDS[f]]

\* _fun_arg_count(f): the number of arguments of a callable.
_fun_arg_count(default) == default.nargs

-----------------------------------------------------------------------------
(* Default records.  r is what the callables called for the record depend  *)
(* on: the color _random_color draws, the state of the data a statistics   *)
(* function reads.                                                         *)

_default_value_wrong_arity(field, default, cluster, r) ==
    IF default.callable
    THEN IF _fun_arg_count(default) = 1 THEN Call0(default, r)
         ELSE IF _fun_arg_count(default) = 0 THEN Call1(default, cluster, r)
         ELSE None
    ELSE default.value

_default_value(field, default, cluster, r) ==
    IF default.callable
    THEN IF _fun_arg_count(default) = 0 THEN Call0(default, r)
         ELSE IF _fun_arg_count(default) = 1 THEN Call1(default, cluster, r)
         ELSE None
    ELSE default.value

_default_info(flds, cluster, r) ==
    [field \in DOMAIN flds |-> _default_value(field, flds[field], cluster, r)]

\* ClusterDefaultDict._n_args for the factory _cluster_info installs,
\* lambda cluster: _default_info(fields, cluster).
_n_args == 1

\* d[key] = value
SetItem(d, key, value) ==
    [k \in DOMAIN d \cup {key} |-> IF k = key THEN value ELSE d[k]]

\* del d[key]
DelItem(d, key) == [k \in DOMAIN d \ {key} |-> d[k]]

\* ClusterDefaultDict.__missing__: store and return the factory's record;
\* flds are the fields the factory was made for.  The other branch calls the
\* factory without argument, which fails for this factory and stores nothing.
__missing__(flds, data, key, r) ==
    IF _n_args = 1
    THEN SetItem(data, key, _default_info(flds, key, r))
    ELSE data

\* Every lookup taken for a missing key.
Missing_always(data, key) == TRUE

\* Whether the lookup data[key] finds no item, and so calls __missing__.
Missing(data, key) == key \notin DOMAIN data

\* self._data[cluster]: the dict after the access (the record is its value
\* at cluster).
__getitem__(flds, data, cluster, r) ==
    IF Missing(data, cluster) THEN __missing__(flds, data, cluster, r) ELSE data

\* The fields whose default callable the access self._data[cluster] calls.
Called(flds, data, cluster) ==
    IF Missing(data, cluster) /\ _n_args = 1
    THEN {f \in DOMAIN flds :
            flds[f].callable /\ _fun_arg_count(flds[f]) \in {0, 1}}
    ELSE {}

\* _cluster_info(fields, data): default records overwritten by the given values.
_cluster_info(flds, data, rnd) ==
    [cluster \in DOMAIN data |->
        LET info == _default_info(flds, cluster, rnd[cluster])
        IN  [k \in DOMAIN info \cup DOMAIN data[cluster] |->
                IF k \in DOMAIN data[cluster] THEN data[cluster][k] ELSE info[k]]]

-----------------------------------------------------------------------------
(* BaseClusterInfo.                                                        *)

\* if not hasattr(clusters, '__len__'): clusters = [clusters]
AsList(clusters) == IF ~hasattr_len(clusters) THEN <<clusters.v[1]>> ELSE clusters.v

Min(a, b) == IF a < b THEN a ELSE b

\* for cluster, value in zip(clusters, vals): self._data[cluster][field] = value
RECURSIVE SetLoop(_, _, _, _, _, _, _)
SetLoop(flds, data, cl, field, vals, i, rnd) ==
    IF i > Min(Len(cl), Len(vals)) THEN data
    ELSE LET d1 == __getitem__(flds, data, cl[i], rnd[cl[i]])
             d2 == [d1 EXCEPT ![cl[i]] = SetItem(@, field, vals[i])]
         IN  SetLoop(flds, d2, cl, field, vals, i + 1, rnd)

\* The assertion made after the loop instead of before it.
BaseClusterInfo_set_late_check(flds, data, clusters, field, values, rnd) ==
    LET cl == AsList(clusters)
    IN  IF hasattr_len(values)
        THEN [ok   |-> Len(cl) = Len(values.v),
              data |-> SetLoop(flds, data, cl, field, values.v, 1, rnd)]
        ELSE [ok   |-> TRUE,
              data |-> SetLoop(flds, data, cl, field,
                               [i \in 1..Len(cl) |-> values.v[1]], 1, rnd)]

\* The first value of a sequence given to every cluster.
BaseClusterInfo_set_first_value(flds, data, clusters, field, values, rnd) ==
    LET cl == AsList(clusters)
    IN  IF hasattr_len(values) /\ Len(cl) # Len(values.v)
        THEN [ok |-> FALSE, data |-> data]
        ELSE [ok   |-> TRUE,
              data |-> SetLoop(flds, data, cl, field,
                               [i \in 1..Len(cl) |-> values.v[1]], 1, rnd)]

\* BaseClusterInfo.set: [ok, data]; ok is FALSE when the assertion fails.
BaseClusterInfo_set(flds, data, clusters, field, values, rnd) ==
    LET cl == AsList(clusters)
    IN  IF hasattr_len(values)
        THEN IF Len(cl) # Len(values.v)
             THEN [ok |-> FALSE, data |-> data]
             ELSE [ok   |-> TRUE,
                   data |-> SetLoop(flds, data, cl, field, values.v, 1, rnd)]
        ELSE [ok   |-> TRUE,
              data |-> SetLoop(flds, data, cl, field,
                               [i \in 1..Len(cl) |-> values.v[1]], 1, rnd)]

RECURSIVE UnsetLoop(_, _, _)
UnsetLoop(data, cl, i) ==
    IF i > Len(cl) THEN data
    ELSE UnsetLoop(IF cl[i] \in DOMAIN data THEN DelItem(data, cl[i]) ELSE data,
                   cl, i + 1)

\* An absent id looked up by item access, which creates its record.
RECURSIVE UnsetLoopByAccess(_, _, _, _, _)
UnsetLoopByAccess(flds, data, cl, i, rnd) ==
    IF i > Len(cl) THEN data
    ELSE UnsetLoopByAccess(flds,
                           IF cl[i] \in DOMAIN data THEN DelItem(data, cl[i])
                           ELSE __getitem__(flds, data, cl[i], rnd[cl[i]]),
                           cl, i + 1, rnd)

unset_by_access(flds, data, clusters, rnd) ==
    UnsetLoopByAccess(flds, data, AsList(clusters), 1, rnd)

\* BaseClusterInfo.unset
unset(flds, data, clusters, rnd) == UnsetLoop(data, AsList(clusters), 1)

-----------------------------------------------------------------------------
(* History, the undo stack of _history.py: a list whose first item is the  *)
(* base item, and the index of the current item.                           *)

\* UpdateInfo(description=field, metadata_changed=clusters)
UpdateInfo(field, cl) == [description |-> field, metadata_changed |-> cl]

\* A stack item (clusters, field, values, info); base says it is the base
\* item (None, None, None, None).
Item(cl, field, values, info) ==
    [base |-> FALSE, clusters |-> cl, field |-> field, values |-> values,
     info |-> info]

BaseItem ==
    [base |-> TRUE, clusters |-> <<>>, field |-> "", values |-> Scalar(None),
     info |-> UpdateInfo("", <<>>)]

History(base_item) == [_history |-> <<base_item>>, _index |-> 0]

History_add(h, item) ==
    [_history |-> Append(SubSeq(h._history, 1, h._index + 1), item),
     _index   |-> h._index + 1]

\* [h, item]: item is the undone item, or empty at the first position.
History_back(h) ==
    IF h._index <= 0 THEN [h |-> h, item |-> <<>>]
    ELSE [h    |-> [h EXCEPT !._index = h._index - 1],
          item |-> <<h._history[h._index + 1]>>]

\* [h, item]: item is the new current item, or empty at the last position.
History_forward(h) ==
    IF h._index >= Len(h._history) - 1 THEN [h |-> h, item |-> <<>>]
    ELSE [h    |-> [h EXCEPT !._index = h._index + 1],
          item |-> <<h._history[h._index + 2]>>]

\* iter(History): the items up to the current one.
History_iter(h) == SubSeq(h._history, 1, h._index + 1)

-----------------------------------------------------------------------------
(* ClusterMetadata.                                                        *)

deepcopy(x) == x

\* A shallow copy: a new dict holding the records of x themselves.
copy_shares(x) == [dict |-> FALSE, records |-> DOMAIN x]

\* What x and deepcopy(x) both refer to: neither the dict nor any of its
\* records, each is copied.
deepcopy_shares(x) == [dict |-> FALSE, records |-> {}]

\* What is still common to the store and the baseline once the store holds
\* data: a record the store has dropped is common no longer.
StillShared(sh, data) ==
    IF sh.dict THEN [dict |-> TRUE, records |-> DOMAIN data]
    ELSE [dict |-> FALSE, records |-> sh.records \cap DOMAIN data]

\* The baseline once the store holds data: an object common to both has
\* changed for both.
Baseline(sh, data, base) ==
    IF sh.dict THEN data
    ELSE [c \in DOMAIN base |->
            IF c \in sh.records /\ c \in DOMAIN data THEN data[c] ELSE base[c]]

\* The change left out of the undo stack when items are waiting for redo.
ClusterMetadata_set_keeps_redo(data, stack, clusters, field, values, add_to_stack, rnd) ==
    LET cl   == AsList(clusters)
        r    == BaseClusterInfo_set(fields, data, List(cl), field, values, rnd)
        info == UpdateInfo(field, cl)
    IN  IF ~r.ok
        THEN [ok |-> FALSE, data |-> r.data, stack |-> stack, ret |-> <<>>]
        ELSE [ok    |-> TRUE,
              data  |-> r.data,
              stack |-> IF add_to_stack /\ stack._index = Len(stack._history) - 1
                        THEN History_add(stack, Item(cl, field, values, info))
                        ELSE stack,
              ret   |-> <<info>>]

\* ClusterMetadata.set: [ok, data, stack, ret].
ClusterMetadata_set(data, stack, clusters, field, values, add_to_stack, rnd) ==
    LET cl   == AsList(clusters)
        r    == BaseClusterInfo_set(fields, data, List(cl), field, values, rnd)
        info == UpdateInfo(field, cl)
    IN  IF ~r.ok
        THEN [ok |-> FALSE, data |-> r.data, stack |-> stack, ret |-> <<>>]
        ELSE [ok    |-> TRUE,
              data  |-> r.data,
              stack |-> IF add_to_stack
                        THEN History_add(stack, Item(cl, field, values, info))
                        ELSE stack,
              ret   |-> <<info>>]

\* for clusters, field, values, _ in self._undo_stack:
\*     if clusters is not None: self.set(clusters, field, values, add_to_stack=False)
RECURSIVE Replay(_, _, _, _, _)
Replay(data, stack, items, i, rnd) ==
    IF i > Len(items) THEN data
    ELSE LET it == items[i]
         IN  Replay(IF ~it.base
                    THEN ClusterMetadata_set(data, stack, List(it.clusters),
                                             it.field, it.values, FALSE, rnd).data
                    ELSE data,
                    stack, items, i + 1, rnd)

\* The store reset to the baseline before the stack is asked.
undo_reset_first(data, base, stack, rnd) ==
    LET b == History_back(stack)
    IN  IF b.item = <<>>
        THEN [data |-> deepcopy(base), stack |-> b.h, ret |-> <<>>]
        ELSE [data  |-> Replay(deepcopy(base), b.h, History_iter(b.h), 1, rnd),
              stack |-> b.h,
              ret   |-> <<b.item[1].info>>]

\* The store reset to the baseline and nothing replayed.
undo_without_replay(data, base, stack, rnd) ==
    LET b == History_back(stack)
    IN  IF b.item = <<>>
        THEN [data |-> data, stack |-> b.h, ret |-> <<>>]
        ELSE [data  |-> deepcopy(base),
              stack |-> b.h,
              ret   |-> <<b.item[1].info>>]

\* The descriptor of the item that is current after the move.
undo_returns_current(data, base, stack, rnd) ==
    LET b == History_back(stack)
    IN  IF b.item = <<>>
        THEN [data |-> data, stack |-> b.h, ret |-> <<>>]
        ELSE [data  |-> Replay(deepcopy(base), b.h, History_iter(b.h), 1, rnd),
              stack |-> b.h,
              ret   |-> <<b.h._history[b.h._index + 1].info>>]

\* ClusterMetadata.undo: [data, stack, ret].
undo(data, base, stack, rnd) ==
    LET b == History_back(stack)
    IN  IF b.item = <<>>
        THEN [data |-> data, stack |-> b.h, ret |-> <<>>]
        ELSE [data  |-> Replay(deepcopy(base), b.h, History_iter(b.h), 1, rnd),
              stack |-> b.h,
              ret   |-> <<b.item[1].info>>]

\* The cursor moved and the descriptor returned, the change not applied.
redo_without_set(data, stack, rnd) ==
    LET f == History_forward(stack)
    IN  IF f.item = <<>>
        THEN [data |-> data, stack |-> f.h, ret |-> <<>>]
        ELSE [data |-> data, stack |-> f.h, ret |-> <<f.item[1].info>>]

\* The change applied with add_to_stack left at its default.
redo_recording(data, stack, rnd) ==
    LET f == History_forward(stack)
    IN  IF f.item = <<>>
        THEN [data |-> data, stack |-> f.h, ret |-> <<>>]
        ELSE LET it == f.item[1]
                 s  == ClusterMetadata_set(data, f.h, List(it.clusters), it.field,
                                           it.values, TRUE, rnd)
             IN  [data |-> s.data, stack |-> s.stack, ret |-> <<it.info>>]

\* ClusterMetadata.redo: [data, stack, ret].
redo(data, stack, rnd) ==
    LET f == History_forward(stack)
    IN  IF f.item = <<>>
        THEN [data |-> data, stack |-> f.h, ret |-> <<>>]
        ELSE LET it == f.item[1]
                 s  == ClusterMetadata_set(data, f.h, List(it.clusters), it.field,
                                           it.values, FALSE, rnd)
             IN  [data |-> s.data, stack |-> s.stack, ret |-> <<it.info>>]

-----------------------------------------------------------------------------
(* The calls the model makes.                                              *)

ClusterArgs == {Scalar(1), List(<<1>>), List(<<1, 2>>)}

FieldArgs == {"group"}

ValueArgs == {Scalar(0), Scalar(2), List(<<0, 2>>)}

\* What each materialization of a default record draws from _random_color.
Oracles == [Clusters -> Colors]

\* The draws that matter when only the clusters of S can be materialized.
OraclesFor(S) == {rnd \in Oracles : \A c \in Clusters \ S : rnd[c] = 5}

\* The clusters of a list.
Range(s) == {s[i] : i \in 1..Len(s)}

\* The number of undone items a History holds beyond its current one.
Redoable(h) == Len(h._history) - 1 - h._index

\* The data a store may be constructed with.
InitialData == {[c \in {1} |-> [f \in {"group"} |-> 2]]}

\* ClusterMetadata(data=data, fields=fields)
MetaInit(data, rnd) ==
    /\ _data = _cluster_info(fields, data, rnd)
    /\ _data_base = deepcopy(_data)
    /\ shared = deepcopy_shares(_data)
    /\ _undo_stack = History(BaseItem)
    /\ op = [name |-> "init", args |-> <<>>, ret |-> <<>>]
    /\ phase = "set"
    /\ cnt = 0
    /\ snap = _data

\* The statistics a ClusterStats is constructed with.
StatNames == {"n_spikes", "quality"}

functions == [s \in StatNames |-> Callable(1, s)]

\* ClusterStats(**functions); last is the name the loop over
\* functions.items() ended on.
StatsInit(last) ==
    /\ name = last
    /\ stats_data = _cluster_info(functions, <<>>, <<>>)
    /\ world = 0
    /\ n_calls = [c \in Clusters |-> [s \in StatNames |-> 0]]
    /\ sop = [name |-> "init", args |-> <<>>, ret |-> <<>>]

Init ==
    /\ \E data \in InitialData :
          \E rnd \in OraclesFor(DOMAIN data) : MetaInit(data, rnd)
    /\ StatsInit("quality")

Get(cluster) ==
    /\ \E r \in Colors :
          /\ _data' = __getitem__(fields, _data, cluster, r)
          /\ op' = [name |-> "get", args |-> <<cluster>>, ret |-> <<_data'[cluster]>>]
    /\ shared' = StillShared(shared, _data')
    /\ _data_base' = Baseline(shared', _data', _data_base)
    /\ UNCHANGED _undo_stack

Set(clusters, field, values) ==
    /\ _undo_stack._index < MaxHistory
    /\ \E rnd \in OraclesFor(Range(AsList(clusters)) \ DOMAIN _data) :
          LET s == ClusterMetadata_set(_data, _undo_stack, clusters, field,
                                       values, TRUE, rnd)
          IN  /\ _data' = s.data
              /\ _undo_stack' = s.stack
              /\ op' = [name |-> IF s.ok THEN "set" ELSE "set_error",
                        args |-> <<Redoable(_undo_stack)>>,
                        ret  |-> s.ret]
    /\ shared' = StillShared(shared, _data')
    /\ _data_base' = Baseline(shared', _data', _data_base)

Unset(clusters) ==
    /\ _data' = unset(fields, _data, clusters, [c \in Clusters |-> 5])
    /\ op' = [name |-> "unset",
              args |-> <<Cardinality(DOMAIN _data \ DOMAIN _data')>>,
              ret  |-> <<>>]
    /\ shared' = StillShared(shared, _data')
    /\ _data_base' = Baseline(shared', _data', _data_base)
    /\ UNCHANGED _undo_stack

Undo ==
    /\ \E rnd \in OraclesFor(Clusters \ DOMAIN _data_base) :
          LET u == undo(_data, _data_base, _undo_stack, rnd)
          IN  /\ _data' = u.data
              /\ _undo_stack' = u.stack
              /\ op' = [name |-> "undo", args |-> <<>>, ret |-> u.ret]
              /\ shared' = StillShared(IF u.ret = <<>> THEN shared
                                       ELSE deepcopy_shares(_data_base), _data')
    /\ _data_base' = Baseline(shared', _data', _data_base)

Redo ==
    /\ \E rnd \in OraclesFor(Clusters \ DOMAIN _data) :
          LET u == redo(_data, _undo_stack, rnd)
          IN  /\ _data' = u.data
              /\ _undo_stack' = u.stack
              /\ op' = [name |-> "redo", args |-> <<>>, ret |-> u.ret]
    /\ shared' = StillShared(shared, _data')
    /\ _data_base' = Baseline(shared', _data', _data_base)

Next ==
    \/ \E cluster \in Clusters : Get(cluster) /\ UNCHANGED <<seqVars, statsVars>>
    \/ \E clusters \in ClusterArgs, field \in FieldArgs, values \in ValueArgs :
          Set(clusters, field, values) /\ UNCHANGED <<seqVars, statsVars>>
    \/ \E clusters \in ClusterArgs : Unset(clusters) /\ UNCHANGED <<seqVars, statsVars>>
    \/ Undo /\ UNCHANGED <<seqVars, statsVars>>
    \/ Redo /\ UNCHANGED <<seqVars, statsVars>>

Spec == Init /\ [][Next]_vars

-----------------------------------------------------------------------------
(* The scripted run: n successful set calls on the fresh store, then undo  *)
(* n times, then redo n times.                                             *)

\* The number of set calls the undo stack has recorded.
NSets == Len(_undo_stack._history) - 1

SeqSet(clusters, field, values) ==
    /\ phase = "set"
    /\ Set(clusters, field, values)
    /\ op'.name = "set"
    /\ snap' = _data'
    /\ UNCHANGED <<phase, cnt, statsVars>>

SeqUndo ==
    /\ \/ phase = "set" /\ NSets > 0 /\ cnt' = 1
       \/ phase = "undo" /\ cnt < NSets /\ cnt' = cnt + 1
    /\ Undo
    /\ phase' = "undo"
    /\ UNCHANGED <<snap, statsVars>>

SeqRedo ==
    /\ \/ phase = "undo" /\ cnt = NSets /\ cnt' = 1
       \/ phase = "redo" /\ cnt < NSets /\ cnt' = cnt + 1
    /\ Redo
    /\ phase' = "redo"
    /\ UNCHANGED <<snap, statsVars>>

NextSeq ==
    \/ \E clusters \in ClusterArgs, field \in FieldArgs, values \in ValueArgs :
          SeqSet(clusters, field, values)
    \/ SeqUndo
    \/ SeqRedo

SpecSeq == Init /\ [][NextSeq]_vars

-----------------------------------------------------------------------------
(* The store driven with any field name: set does not look the name up in  *)
(* the declared fields.                                                    *)

\* The field names given to set: a declared one and one that is not.
AnyFieldArgs == FieldArgs \cup {"extra"}

NextAnyField ==
    \/ \E cluster \in Clusters : Get(cluster) /\ UNCHANGED <<seqVars, statsVars>>
    \/ \E clusters \in ClusterArgs, field \in AnyFieldArgs, values \in ValueArgs :
          Set(clusters, field, values) /\ UNCHANGED <<seqVars, statsVars>>
    \/ \E clusters \in ClusterArgs : Unset(clusters) /\ UNCHANGED <<seqVars, statsVars>>
    \/ Undo /\ UNCHANGED <<seqVars, statsVars>>
    \/ Redo /\ UNCHANGED <<seqVars, statsVars>>

SpecAnyField == Init /\ [][NextAnyField]_vars

-----------------------------------------------------------------------------
(* BaseClusterInfo alone: the store with item access, set and unset, and   *)
(* no undo stack.                                                          *)

\* Ids given to BaseClusterInfo.set: one id, lists, a list naming an id twice.
BaseClusterArgs == ClusterArgs \cup {List(<<2>>), List(<<2, 1>>), List(<<1, 1>>)}

BaseFieldArgs == {"group", "color"}

BaseValueArgs == ValueArgs \cup {List(<<2>>)}

BaseSet(clusters, field, values) ==
    /\ \E rnd \in OraclesFor(Range(AsList(clusters)) \ DOMAIN _data) :
          LET s == BaseClusterInfo_set(fields, _data, clusters, field, values, rnd)
          IN  /\ _data' = s.data
              /\ op' = [name |-> IF s.ok THEN "set" ELSE "set_error",
                        args |-> <<AsList(clusters), field, values,
                                   Range(AsList(clusters)) \ DOMAIN _data>>,
                        ret  |-> <<>>]
    /\ UNCHANGED <<_data_base, _undo_stack, shared>>

NextBase ==
    \/ \E cluster \in Clusters : Get(cluster) /\ UNCHANGED <<seqVars, statsVars>>
    \/ \E clusters \in BaseClusterArgs, field \in BaseFieldArgs, values \in BaseValueArgs :
          BaseSet(clusters, field, values) /\ UNCHANGED <<seqVars, statsVars>>
    \/ \E clusters \in ClusterArgs : Unset(clusters) /\ UNCHANGED <<seqVars, statsVars>>

SpecBase == Init /\ [][NextBase]_vars

-----------------------------------------------------------------------------
(* ClusterStats.                                                           *)

\* Nothing evicted.
invalidate_nothing(data, clusters, rnd) == data

\* ClusterStats.invalidate
invalidate(data, clusters, rnd) == unset(functions, data, clusters, rnd)

\* A ClusterStats is constructed with any order of its functions, on data
\* in its first state.
InitStats ==
    /\ MetaInit(<<>>, [c \in Clusters |-> 5])
    /\ \E last \in StatNames : StatsInit(last)

\* The calls counted when the record of cluster is looked up.
Count(cluster) ==
    [n_calls EXCEPT ![cluster] =
        [s \in StatNames |->
            IF s \in Called(functions, stats_data, cluster) THEN @[s] + 1 ELSE @[s]]]

\* stats.<stat>(cluster): the accessor __init__ sets,
\* lambda cluster: self[cluster][name].
Accessor(stat, cluster) ==
    /\ \A s \in Called(functions, stats_data, cluster) : n_calls[cluster][s] < MaxCalls
    /\ stats_data' = __getitem__(functions, stats_data, cluster, world)
    /\ n_calls' = Count(cluster)
    /\ sop' = [name |-> "accessor", args |-> <<stat, cluster>>,
               ret  |-> <<stats_data'[cluster][name]>>]
    /\ UNCHANGED <<name, world>>

\* stats[cluster][stat]
StatItem(stat, cluster) ==
    /\ \A s \in Called(functions, stats_data, cluster) : n_calls[cluster][s] < MaxCalls
    /\ stats_data' = __getitem__(functions, stats_data, cluster, world)
    /\ n_calls' = Count(cluster)
    /\ sop' = [name |-> "item", args |-> <<stat, cluster>>,
               ret  |-> <<stats_data'[cluster][stat]>>]
    /\ UNCHANGED <<name, world>>

Invalidate(clusters) ==
    /\ stats_data' = invalidate(stats_data, clusters, [c \in Clusters |-> world])
    /\ n_calls' = [c \in Clusters |->
                     IF c \in Range(AsList(clusters))
                     THEN [s \in StatNames |-> 0] ELSE n_calls[c]]
    /\ sop' = [name |-> "invalidate",
               args |-> <<AsList(clusters),
                          Cardinality(DOMAIN stats_data \ DOMAIN stats_data')>>,
               ret  |-> <<>>]
    /\ UNCHANGED <<name, world>>

\* The data the statistics are computed from changes.
WorldChange ==
    /\ world' = 1 - world
    /\ UNCHANGED <<stats_data, name, n_calls, sop>>

NextStats ==
    \/ \E stat \in StatNames, cluster \in Clusters :
          Accessor(stat, cluster) /\ UNCHANGED <<metaVars, seqVars>>
    \/ \E stat \in StatNames, cluster \in Clusters :
          StatItem(stat, cluster) /\ UNCHANGED <<metaVars, seqVars>>
    \/ \E clusters \in ClusterArgs : Invalidate(clusters) /\ UNCHANGED <<metaVars, seqVars>>
    \/ WorldChange /\ UNCHANGED <<metaVars, seqVars>>

SpecStats == InitStats /\ [][NextStats]_vars

-----------------------------------------------------------------------------
(* ClusterStats with the set and unset it inherits from BaseClusterInfo.   *)

\* The clusters of a list whose record a call has to create.
Created(clusters) == {c \in Range(AsList(clusters)) : Missing(stats_data, c)}

\* stats.set(clusters, field, values)
StatSet(clusters, field, values) ==
    /\ \A c \in Created(clusters), s \in StatNames : n_calls[c][s] < MaxCalls
    /\ LET s == BaseClusterInfo_set(functions, stats_data, clusters, field, values,
                                    [c \in Clusters |-> world])
       IN  /\ stats_data' = s.data
           /\ n_calls' = [c \in Clusters |->
                            IF s.ok /\ c \in Created(clusters)
                            THEN [st \in StatNames |-> n_calls[c][st] + 1]
                            ELSE n_calls[c]]
           /\ sop' = [name |-> IF s.ok THEN "set" ELSE "set_error",
                      args |-> <<AsList(clusters), field, values>>,
                      ret  |-> <<>>]
    /\ UNCHANGED <<name, world>>

\* stats.unset(clusters)
StatUnset(clusters) ==
    /\ stats_data' = unset(functions, stats_data, clusters, [c \in Clusters |-> world])
    /\ n_calls' = [c \in Clusters |->
                     IF c \in Range(AsList(clusters))
                     THEN [s \in StatNames |-> 0] ELSE n_calls[c]]
    /\ sop' = [name |-> "unset", args |-> <<AsList(clusters)>>, ret |-> <<>>]
    /\ UNCHANGED <<name, world>>

NextStatsSet ==
    \/ NextStats
    \/ \E clusters \in ClusterArgs, field \in StatNames, values \in ValueArgs :
          StatSet(clusters, field, values) /\ UNCHANGED <<metaVars, seqVars>>
    \/ \E clusters \in ClusterArgs : StatUnset(clusters) /\ UNCHANGED <<metaVars, seqVars>>

SpecStatsSet == InitStats /\ [][NextStatsSet]_vars

-----------------------------------------------------------------------------
(* Claims.                                                                 *)

\* C1: after n successful set calls on a fresh store, n undo calls leave the
\* store equal to the baseline snapshot, and n redo calls then leave it equal
\* to the store as it was right after the last set, default-filled fields
\* included.
C1_UndoAllRedoAll ==
    /\ (phase = "undo" /\ cnt = NSets) => _data = _data_base
    /\ (phase = "redo" /\ cnt = NSets) => _data = snap

\* C2: in every reachable state the store equals the baseline with the
\* recorded set calls before the cursor replayed in order (for some outcome of
\* the default generators the replay calls).
C2_StoreIsReplay ==
    \E rnd \in Oracles :
        _data = Replay(_data_base, _undo_stack, History_iter(_undo_stack), 1, rnd)

\* C3: from every reachable state, a set, or an unset that removes a record,
\* followed at once by undo gives back the store as it was before that call.
C3_EveryMutationUndone ==
    /\ \A clusters \in ClusterArgs, field \in FieldArgs, values \in ValueArgs :
        \A rnd \in Oracles, rnd2 \in Oracles :
            LET s == ClusterMetadata_set(_data, _undo_stack, clusters, field,
                                         values, TRUE, rnd)
            IN  s.ok => undo(s.data, _data_base, s.stack, rnd2).data = _data
    /\ \A clusters \in ClusterArgs : \A rnd \in Oracles :
            LET d == unset(fields, _data, clusters, rnd)
            IN  d # _data => undo(d, _data_base, _undo_stack, rnd).data = _data

\* The values argument is a sequence whose length is not the number of ids.
Mismatch(clusters, values) ==
    hasattr_len(values) /\ Len(AsList(clusters)) # Len(values.v)

\* C4: a set whose sequence of values does not have the length of the ids
\* fails, in BaseClusterInfo as in ClusterMetadata, and leaves the store, the
\* history entries and the cursor as they were.
C4_FailedSetChangesNothing ==
    /\ [](\A clusters \in ClusterArgs, field \in FieldArgs, values \in ValueArgs :
            \A rnd \in Oracles :
               Mismatch(clusters, values) =>
                 LET b == BaseClusterInfo_set(fields, _data, clusters, field, values, rnd)
                     s == ClusterMetadata_set(_data, _undo_stack, clusters, field,
                                              values, TRUE, rnd)
                 IN  /\ ~b.ok /\ b.data = _data
                     /\ ~s.ok /\ s.data = _data /\ s.stack = _undo_stack
                     /\ s.ret = <<>>)
    /\ [][op'.name = "set_error" => UNCHANGED <<_data, _data_base, _undo_stack>>]_vars

C4_Witness == op.name = "set_error" /\ NSets > 0 /\ _data # _data_base

\* C5: undo called with the cursor at its earliest position returns nothing
\* and changes neither the store, the history entries nor the cursor.
C5_UndoAtStart ==
    [][(op'.name = "undo" /\ _undo_stack._index = 0) =>
          (op'.ret = <<>> /\ UNCHANGED <<_data, _data_base, _undo_stack>>)]_vars

C5_Witness ==
    /\ op.name = "undo" /\ op.ret = <<>>
    /\ _undo_stack._index = 0 /\ NSets > 0 /\ _data # _data_base

\* C6: right after a successful ClusterMetadata.set the cursor is at the end
\* of the history, which is the entries that were done before the call
\* followed by the new one (the undone entries are gone), so that redo
\* returns nothing and changes nothing.
C6_SetDiscardsRedo ==
    [][op'.name = "set" =>
          /\ _undo_stack'._index = Len(_undo_stack'._history) - 1
          /\ _undo_stack'._index = _undo_stack._index + 1
          /\ SubSeq(_undo_stack'._history, 1, _undo_stack._index + 1)
                = SubSeq(_undo_stack._history, 1, _undo_stack._index + 1)
          /\ \A rnd \in Oracles :
                redo(_data', _undo_stack', rnd)
                  = [data |-> _data', stack |-> _undo_stack', ret |-> <<>>]]_vars

C6_Witness == op.name = "set" /\ op.args[1] > 0

\* The positions of the done items that assign field f of cluster c.
Assigning(done, c, f) ==
    {i \in 1..Len(done) :
        ~done[i].base /\ done[i].field = f /\ c \in Range(done[i].clusters)}

Max(S) == CHOOSE m \in S : \A x \in S : x <= m

\* The value a stack item assigns to cluster c.
AssignedBy(item, c) ==
    IF hasattr_len(item.values)
    THEN item.values.v[Max({j \in 1..Len(item.clusters) : item.clusters[j] = c})]
    ELSE item.values.v[1]

\* C7: after an undo, every field that a still-done set assigned holds the
\* value of the latest such set: not the value of the undone set, not the
\* default.
C7_UndoRestoresPrevious ==
    (op.name = "undo" /\ op.ret # <<>>) =>
        \A c \in Clusters : \A f \in FieldArgs :
            LET done == History_iter(_undo_stack)
                at   == Assigning(done, c, f)
            IN  at # {} =>
                  /\ c \in DOMAIN _data
                  /\ _data[c][f] = AssignedBy(done[Max(at)], c)

\* set([1], 'group', 0), set([1], 'group', 2), undo: the group of 1 is 0, when
\* the undone value is 2, the baseline value 2 and the default 3.
C7_Witness ==
    /\ op.name = "undo" /\ op.ret # <<>>
    /\ _undo_stack._index = 1 /\ NSets = 2
    /\ \A i \in 2..3 : /\ _undo_stack._history[i].clusters = <<1>>
                        /\ _undo_stack._history[i].field = "group"
    /\ _undo_stack._history[2].values = Scalar(0)
    /\ _undo_stack._history[3].values = Scalar(2)
    /\ _data[1]["group"] = 0

\* C8: item access of an id without record returns, and stores, a record
\* holding for every declared field its default: the constant, the result of
\* the zero-argument callable, the result of the one-argument callable at
\* that id.  Item access of an id with a record returns that record and
\* evaluates nothing: the store is unchanged.
C8_GetGivesDefaults ==
    [][op'.name = "get" =>
          LET c == op'.args[1]
          IN  /\ c \in DOMAIN _data'
              /\ op'.ret = <<_data'[c]>>
              /\ \A d \in DOMAIN _data : _data'[d] = _data[d]
              /\ DOMAIN _data' = DOMAIN _data \cup {c}
              /\ c \notin DOMAIN _data =>
                    /\ DOMAIN _data'[c] = DOMAIN fields
                    /\ _data'[c]["group"] = DefaultGroup
                    /\ _data'[c]["color"] \in Colors
                    /\ _data'[c]["label"] = PerCluster(c)
              /\ (op.name = "get" /\ op.args = op'.args) => op'.ret = op.ret]_vars

C8_Witness ==
    /\ op.name = "get" /\ op.args = <<2>>
    /\ 2 \notin DOMAIN _data_base /\ NSets = 0
    /\ _data[2]["color"] = 6

\* C9: unset creates no record and changes none; when no id of the call has
\* a record the store is unchanged; unset applied twice gives the store that
\* unset applied once gives.
C9_UnsetIdempotent ==
    /\ [](\A clusters \in ClusterArgs : \A rnd \in Oracles :
            LET d == unset(fields, _data, clusters, rnd)
            IN  /\ unset(fields, d, clusters, rnd) = d
                /\ DOMAIN d = DOMAIN _data \ Range(AsList(clusters))
                /\ \A c \in DOMAIN d : d[c] = _data[c]
                /\ Range(AsList(clusters)) \cap DOMAIN _data = {} => d = _data)
    /\ [][op'.name = "unset" =>
             /\ DOMAIN _data' \subseteq DOMAIN _data
             /\ \A c \in DOMAIN _data' : _data'[c] = _data[c]
             /\ op'.args[1] = 0 => _data' = _data]_vars

C9_Witness == op.name = "unset" /\ op.args[1] = 0 /\ DOMAIN _data # {}

\* C10: between two invalidations covering a cluster (or from construction
\* to the first) each statistics function is called at most once for that
\* cluster, whatever is read; a read of a cluster that has a record calls no
\* function and leaves the cache as it is.
C10_ComputedOncePerInvalidation ==
    /\ [](\A c \in Clusters : \A s \in StatNames : n_calls[c][s] <= 1)
    /\ [][(sop'.name \in {"accessor", "item"}
             /\ sop'.args[2] \in DOMAIN stats_data) =>
               UNCHANGED <<stats_data, n_calls>>]_vars

\* A read of cluster 1 served from the record computed before the data
\* changed.
C10_Witness ==
    /\ sop.name = "accessor" /\ sop.args[2] = 1
    /\ world = 1
    /\ stats_data[1]["n_spikes"] = Stat("n_spikes", 1, 0)
    /\ n_calls[1]["n_spikes"] = 1

\* The record the statistics functions give for cluster c on data in state w.
Fresh(c, w) == [s \in StatNames |-> Stat(s, c, w)]

\* C11: after invalidate(ids) no id of ids has a cached record and the
\* records of the other ids are as they were; the next read of an id without
\* record calls every statistics function once more, caches what they return
\* on the data as it is now, and returns a value of that new record.
C11_InvalidateEvicts ==
    /\ [][sop'.name = "invalidate" =>
             /\ DOMAIN stats_data' = DOMAIN stats_data \ Range(sop'.args[1])
             /\ \A c \in DOMAIN stats_data' : stats_data'[c] = stats_data[c]]_vars
    /\ [][(sop'.name \in {"accessor", "item"}
             /\ sop'.args[2] \notin DOMAIN stats_data) =>
               LET c == sop'.args[2]
               IN  /\ stats_data' = SetItem(stats_data, c, Fresh(c, world))
                   /\ \A s \in StatNames : n_calls'[c][s] = n_calls[c][s] + 1
                   /\ \E s \in StatNames : sop'.ret = <<Fresh(c, world)[s]>>
                   /\ sop'.name = "item" =>
                         sop'.ret = <<Fresh(c, world)[sop'.args[1]]>>]_vars

\* invalidate([1]) has evicted the record of 1 and kept the record of 2,
\* which was computed before the data changed.
C11_Witness ==
    /\ sop.name = "invalidate" /\ sop.args = <<(<<1>>), 1>>
    /\ DOMAIN stats_data = {2}
    /\ world = 1 /\ stats_data[2] = Fresh(2, 0)

\* C12: the accessor set under the name of a statistic returns, for every
\* cluster, the value of that statistic: what its own function computes,
\* which is the value the record of the cluster caches under that name.
C12_AccessorReturnsItsStat ==
    sop.name = "accessor" =>
        /\ sop.args[2] \in DOMAIN stats_data
        /\ sop.ret = <<stats_data[sop.args[2]][sop.args[1]]>>
        /\ \E w \in {0, 1} : sop.ret = <<Stat(sop.args[1], sop.args[2], w)>>

\* C13: after any sequence of get, set (with any field name), unset, undo
\* and redo, every record of the store has exactly the declared field names
\* as its keys.
C13_RecordsHaveDeclaredFields ==
    \A c \in DOMAIN _data : DOMAIN _data[c] = DOMAIN fields

\* C14: the baseline snapshot made at construction never changes, whatever
\* get, set, unset, undo and redo calls follow, a set or a get made on the
\* store that undo has rebuilt from the baseline included.
C14_BaselineNeverChanges == [][_data_base' = _data_base]_vars

\* A set made after an undo has changed a record the baseline holds too.
C14_Witness ==
    /\ op.name = "set" /\ op.args[1] > 0
    /\ 1 \in DOMAIN _data /\ 1 \in DOMAIN _data_base
    /\ _data[1] # _data_base[1]

\* The value a successful set(cl, field, vals) leaves on cluster c: the
\* scalar, or the value at the position of c, the last one when cl names c
\* more than once.
ValueFor(cl, vals, c) ==
    IF hasattr_len(vals) THEN vals.v[Max({i \in 1..Len(cl) : cl[i] = c})]
    ELSE vals.v[1]

\* C15: a successful set(ids, field, values) assigns field on exactly the ids
\* given: a scalar to every id, a sequence of the length of ids position by
\* position; an id without record first gets its full default record and
\* then the value; the other fields of the ids given and the records of all
\* other ids stay as they were.
C15_SetAssignsExactlyTargets ==
    [][op'.name = "set" =>
         LET cl   == op'.args[1]
             f    == op'.args[2]
             vals == op'.args[3]
         IN  /\ hasattr_len(vals) => Len(vals.v) = Len(cl)
             /\ DOMAIN _data' = DOMAIN _data \cup Range(cl)
             /\ \A c \in DOMAIN _data \ Range(cl) : _data'[c] = _data[c]
             /\ \A c \in Range(cl) :
                   /\ DOMAIN _data'[c] = DOMAIN fields \cup {f}
                   /\ _data'[c][f] = ValueFor(cl, vals, c)
                   /\ c \in DOMAIN _data =>
                         \A g \in DOMAIN _data[c] \ {f} : _data'[c][g] = _data[c][g]
                   /\ c \notin DOMAIN _data =>
                         \E r \in Colors :
                            \A g \in DOMAIN fields \ {f} :
                               _data'[c][g] = _default_info(fields, c, r)[g]]_vars

\* set([1, 2], 'group', [0, 2]) on a store without record for 2: cluster 2
\* has its default color and label and the group given for it.
C15_Witness ==
    /\ op.name = "set"
    /\ op.args = <<(<<1, 2>>), "group", List(<<0, 2>>), {2}>>
    /\ _data[1].group = 0
    /\ _data[2] = [group |-> 2, color |-> 6, label |-> PerCluster(2)]

\* C16: with at least one recorded set done, undo moves the cursor back by
\* exactly one, leaves the entries of the history as they are and returns
\* the descriptor of the entry it has undone, which is the descriptor (same
\* ids, same field) the set that recorded the entry returned.
C16_UndoReturnsUndoneInfo ==
    /\ [][op'.name = "set" =>
             LET it == _undo_stack'._history[_undo_stack'._index + 1]
             IN  /\ op'.ret = <<it.info>>
                 /\ it.info = UpdateInfo(it.field, it.clusters)]_vars
    /\ [][(op'.name = "undo" /\ _undo_stack._index > 0) =>
             LET it == _undo_stack._history[_undo_stack._index + 1]
             IN  /\ _undo_stack'._index = _undo_stack._index - 1
                 /\ _undo_stack'._history = _undo_stack._history
                 /\ op'.ret = <<it.info>>
                 /\ it.info = UpdateInfo(it.field, it.clusters)]_vars

\* The second of two recorded sets has been undone; its descriptor, which is
\* not the one of the first set, is returned and its entry is still there.
C16_Witness ==
    /\ op.name = "undo"
    /\ _undo_stack._index = 1 /\ Len(_undo_stack._history) = 3
    /\ op.ret = <<_undo_stack._history[3].info>>
    /\ _undo_stack._history[3].info # _undo_stack._history[2].info

\* C17: redo with nothing undone returns nothing and changes nothing;
\* otherwise it applies the ids, field and values of the first undone entry
\* to the store, records no entry (the history keeps its length and its
\* entries), moves the cursor forward by exactly one and returns the
\* descriptor of that entry.
C17_RedoAppliesNextEntry ==
    [][op'.name = "redo" =>
         IF Redoable(_undo_stack) = 0
         THEN op'.ret = <<>> /\ UNCHANGED <<_data, _data_base, _undo_stack>>
         ELSE LET it == _undo_stack._history[_undo_stack._index + 2]
              IN  /\ _undo_stack'._history = _undo_stack._history
                  /\ _undo_stack'._index = _undo_stack._index + 1
                  /\ op'.ret = <<it.info>>
                  /\ DOMAIN _data' = DOMAIN _data \cup Range(it.clusters)
                  /\ \A c \in Range(it.clusters) :
                        _data'[c][it.field] = ValueFor(it.clusters, it.values, c)
                  /\ \A c \in DOMAIN _data \ Range(it.clusters) :
                        _data'[c] = _data[c]]_vars

\* The first of two undone sets has been redone: the second is still in the
\* history, and the store, which was the baseline, has the value redone.
C17_Witness ==
    /\ op.name = "redo" /\ op.ret # <<>>
    /\ _undo_stack._index = 1 /\ Len(_undo_stack._history) = 3
    /\ _data # _data_base

\* C18: the cursor of the history is never before the earliest position nor
\* beyond the number of recorded entries; it starts at the earliest
\* position; a successful set, undo and redo move it by exactly +1, -1 and
\* +1; an undo at the earliest position, a redo at the last one, a failed
\* set, a get and an unset leave it where it is.
C18_CursorValid ==
    /\ [](/\ 0 <= _undo_stack._index
          /\ _undo_stack._index <= NSets
          /\ op.name = "init" => _undo_stack._index = 0)
    /\ [][LET i == _undo_stack._index
              j == _undo_stack'._index
          IN  /\ op'.name = "set" => j = i + 1
              /\ op'.name = "undo" => j = IF i > 0 THEN i - 1 ELSE i
              /\ op'.name = "redo" => j = IF i < NSets THEN i + 1 ELSE i
              /\ op'.name \in {"set_error", "get", "unset"} => j = i]_vars

\* Two sets recorded and both undone: the cursor is back at the earliest
\* position.
C18_Witness ==
    /\ op.name = "undo" /\ op.ret # <<>>
    /\ _undo_stack._index = 0 /\ NSets = 2

\* C19: after any sequence of reads, invalidate calls and the inherited set
\* and unset calls on a ClusterStats, every cached record is one snapshot:
\* it has a value for every declared statistic, and all of them are what
\* the functions returned on one state of the data, the one at which the
\* record was created.
C19_RecordIsOneSnapshot ==
    \A c \in DOMAIN stats_data :
        /\ DOMAIN stats_data[c] = StatNames
        /\ \E w \in {0, 1} : stats_data[c] = Fresh(c, w)

====
